---- MODULE Spec2Model ----
(***************************************************************************)
(* State-machine model of the City class (src/src/scripts/sim/city.js):    *)
(* the tile grid, the treasury, the mission table and the operations       *)
(* placeBuilding, bulldoze, destroy, simulate and findTile.                *)
(***************************************************************************)
EXTENDS Integers, Sequences, FiniteSets, TLC

\* size, money, level, missionCounter, simTime: the fields of City
\* tiles[x][y]:        the building of tile (x, y), NoBuilding when empty
\* levels[l][k]:       the done flag of mission k of level l
\* vehicleGraph[x][y]: the last building passed to updateTile for (x, y)
\* ui:                 what the last call did to window.ui (notifications,
\*                     sound, toggleFinished) and whether it threw; messages
\*                     are written without their accents
\* search:             the findTile call in progress or last returned: its
\*                     arguments, its locals tilesToSearch and visited, its
\*                     result, and the tiles whose neighbours it has pushed
VARIABLES size, money, tiles, level, missionCounter, levels, simTime,
          vehicleGraph, ui, search

vars == <<size, money, tiles, level, missionCounter, levels, simTime,
          vehicleGraph, ui, search>>

(* ------------------------------ bounds --------------------------------- *)

\* size passed to the constructor
CitySize == 3
\* money passed to the constructor
StartMoney == 600
\* calls aim at the first UsedTiles tiles of the grid in scan order (x outer,
\* y inner) and at coordinates outside the grid
UsedTiles == 3
\* simulate is called with steps in 1 .. MaxSteps
MaxSteps == 2
\* simulate is called while simTime < MaxSimTime
MaxSimTime == 2
\* the campaign specification: the constructor's money, the number of tiles
\* its calls aim at, and the simulate calls it makes
CampaignMoney == 2600
CampaignTiles == 6
CampaignSimTime == 2
\* the resident count a residential building can grow to
MaxResidents == 40
\* the finale specification: the constructor's money, the number of tiles
\* its calls aim at, the larger of the two step counts simulate is called
\* with, and the simulate calls it makes
FinaleMoney == 1100
FinaleTiles == 3
FinaleSteps == 5
FinaleSimTime == 3
\* findTile is called with maxDistance in 0 .. MaxDistance
MaxDistance == 2

(* --------------------------- values and inputs -------------------------- *)

\* a JavaScript argument that is either a number or undefined
Num(n) == [def |-> TRUE, n |-> n]
Undefined == [def |-> FALSE, n |-> 0]

\* BuildingType members used by city.js, and one type it has no rule for
residential == "residential"
road == "road"
commercial == "commercial"
BuildingTypes == {residential, road, commercial}

\* tile.building when the tile is empty
NoBuilding == [type |-> "none", residents |-> 0]

\* the value getTile returns for a coordinate outside the grid
Null == [null |-> TRUE]

\* the vehicleGraph entry of a tile updateTile was never called for
NeverUpdated == [type |-> "never", residents |-> 0]

\* resident counts a residential building can have after Tile.simulate
ResidentLevels == {0, MaxResidents}

InRange(n) ==
  {<<Num(k \div CitySize), Num(k % CitySize)>> : k \in 0 .. n - 1}
OutOfRange ==
  {<<Num(-1), Num(0)>>, <<Num(0), Num(CitySize)>>,
   <<Undefined, Num(0)>>, <<Num(0), Undefined>>}
Targets == InRange(UsedTiles) \cup OutOfRange
StepArgs == 1 .. MaxSteps

\* what a call reports to window.ui, whether it threw, and the boolean it
\* returned ("none" for a call that returns no boolean)
Quiet(op) ==
  [op |-> op, notify |-> <<>>, sound |-> "none", toggled |-> FALSE,
   raised |-> FALSE, returned |-> "none"]

Note(type, message) == [type |-> type, message |-> message]

\* no findTile call has been made
NoSearch ==
  [pc |-> "idle", startTile |-> Null, filter |-> {}, maxDistance |-> 0,
   tilesToSearch |-> <<>>, visited |-> {}, result |-> Null, expanded |-> <<>>]

\* the arguments of findTile: start is any tile of the grid, the filter is
\* given by the set of the tile ids it accepts (none, one or two tiles)
Grid == (0 .. CitySize - 1) \X (0 .. CitySize - 1)
Starts == {[x |-> Num(c[1]), y |-> Num(c[2])] : c \in Grid}
Filters == {{}} \cup {{a, b} : a \in Grid, b \in Grid}
Distances == 0 .. MaxDistance

(* ------------------------------ helpers --------------------------------- *)

createBuilding(x, y, buildingType) == [type |-> buildingType, residents |-> 0]

getTile(x, y) ==
  IF \/ ~x.def \/ ~y.def
     \/ x.n < 0 \/ y.n < 0
     \/ x.n >= size \/ y.n >= size
  THEN Null
  ELSE [null |-> FALSE, x |-> x.n, y |-> y.n, building |-> tiles[x.n][y.n]]

hasBuilding(tile) == tile.building # NoBuilding

\* tile.setBuilding(b) on tile (x, y)
setBuilding(ts, x, y, b) == [ts EXCEPT ![x][y] = b]

\* vehicleGraph.updateTile(x, y, b): the last value passed for the tile
updateTile(g, x, y, b) == [g EXCEPT ![x][y] = b]

RECURSIVE SumColumn(_, _, _)
SumColumn(ts, x, y) ==
  IF y >= size THEN 0 ELSE ts[x][y].residents + SumColumn(ts, x, y + 1)

RECURSIVE SumColumns(_, _)
SumColumns(ts, x) ==
  IF x >= size THEN 0 ELSE SumColumn(ts, x, 0) + SumColumns(ts, x + 1)

population(ts) == SumColumns(ts, 0)

\* one scan of the grid, x outer and y inner, counting buildings of a type
RECURSIVE ScanColumn(_, _, _, _)
ScanColumn(ts, type, x, y) ==
  IF y >= size THEN 0
  ELSE (IF ts[x][y].type = type THEN 1 ELSE 0) + ScanColumn(ts, type, x, y + 1)

RECURSIVE ScanGrid(_, _, _)
ScanGrid(ts, type, x) ==
  IF x >= size THEN 0
  ELSE ScanColumn(ts, type, x, 0) + ScanGrid(ts, type, x + 1)

\* the while (count++ < steps) loop: the value a counter declared before the
\* loop has after it, each executed step adding one scan of the grid
RECURSIVE StepLoop(_, _, _, _, _)
StepLoop(ts, type, count, steps, tally) ==
  IF count < steps
  THEN StepLoop(ts, type, count + 1, steps, tally + ScanGrid(ts, type, 0))
  ELSE tally

\* Tile.simulate over the whole grid: a residential building's resident count
\* moves to any of ResidentLevels, nothing else changes.  The outcome does
\* not depend on the count before, so one choice stands for any number >= 1
\* of executed steps.  Residents(ts) are the choices, TileSimulate(ts, f) is
\* the grid after the choice f.
ResidentialTiles(ts) ==
  {c \in (0 .. size - 1) \X (0 .. size - 1) : ts[c[1]][c[2]].type = residential}

Residents(ts) == [ResidentialTiles(ts) -> ResidentLevels]

TileSimulate(ts, f) ==
  [x \in 0 .. size - 1 |-> [y \in 0 .. size - 1 |->
     IF ts[x][y].type = residential
     THEN [ts[x][y] EXCEPT !.residents = f[<<x, y>>]]
     ELSE ts[x][y]]]

\* the mission table of City.levels, without the done flags
Mission(citizens, buildings, roads) ==
  [citizens |-> citizens, buildings |-> buildings, road |-> roads]

LevelMissions ==
  <<
    << Mission(35, 0, 0), Mission(0, 5, 0), Mission(0, 0, 1) >>,
    << Mission(75, 0, 0), Mission(0, 10, 0), Mission(0, 0, 5) >>
  >>

\* missionDone with > for >=
missionDone_strict(mission, done, pop, buildCount, roadCount) ==
  IF mission.citizens # 0 THEN (IF pop > mission.citizens THEN TRUE ELSE done)
  ELSE IF mission.buildings # 0
       THEN (IF buildCount > mission.buildings THEN TRUE ELSE done)
  ELSE IF mission.road # 0
       THEN (IF roadCount > mission.road THEN TRUE ELSE done)
  ELSE done

\* missionDone assigning the outcome of the comparison to the flag
missionDone_recomputed(mission, done, pop, buildCount, roadCount) ==
  IF mission.citizens # 0 THEN pop >= mission.citizens
  ELSE IF mission.buildings # 0 THEN buildCount >= mission.buildings
  ELSE IF mission.road # 0 THEN roadCount >= mission.road
  ELSE done

\* the body of the for loop of simulate for one mission: its done flag after
missionDone(mission, done, pop, buildCount, roadCount) ==
  IF mission.citizens # 0 THEN (IF pop >= mission.citizens THEN TRUE ELSE done)
  ELSE IF mission.buildings # 0
       THEN (IF buildCount >= mission.buildings THEN TRUE ELSE done)
  ELSE IF mission.road # 0
       THEN (IF roadCount >= mission.road THEN TRUE ELSE done)
  ELSE done

\* the done flags of the active level after the for loop of simulate
evaluateMissions(lv, flags, pop, buildCount, roadCount) ==
  [k \in 1 .. 3 |->
     missionDone(LevelMissions[lv][k], flags[k], pop, buildCount, roadCount)]

\* DoneCount counting the missions, done or not
DoneCount_missions(flags) == Cardinality({k \in 1 .. 3 : flags[k] \in BOOLEAN})

\* counter after the for loop of simulate: the missions of the level that
\* are done
DoneCount(flags) == Cardinality({k \in 1 .. 3 : flags[k]})

\* bonus paid at the completion of either level
bonus_everyLevel(lv, counter) == IF counter = 3 THEN 2500 ELSE 0

\* what simulate adds to money
bonus(lv, counter) == IF counter = 3 /\ lv = 1 THEN 2500 ELSE 0

\* the clock after a simulate call
tick(t, steps) == t + 1

\* tile.id: one id per tile of the grid
id(tile) == <<tile.x, tile.y>>

\* a.distanceTo(b): the Manhattan distance of two tiles
distanceTo(a, b) ==
  (IF a.x >= b.x THEN a.x - b.x ELSE b.x - a.x)
  + (IF a.y >= b.y THEN a.y - b.y ELSE b.y - a.y)

\* getTileNeighbors pushing the east neighbour before the west one
getTileNeighbors_eastFirst(x, y) ==
  (IF x < size - 1 THEN <<getTile(Num(x + 1), Num(y))>> ELSE <<>>)
  \o (IF x > 0 THEN <<getTile(Num(x - 1), Num(y))>> ELSE <<>>)
  \o (IF y > 0 THEN <<getTile(Num(x), Num(y - 1))>> ELSE <<>>)
  \o (IF y < size - 1 THEN <<getTile(Num(x), Num(y + 1))>> ELSE <<>>)

getTileNeighbors(x, y) ==
  (IF x > 0 THEN <<getTile(Num(x - 1), Num(y))>> ELSE <<>>)
  \o (IF x < size - 1 THEN <<getTile(Num(x + 1), Num(y))>> ELSE <<>>)
  \o (IF y > 0 THEN <<getTile(Num(x), Num(y - 1))>> ELSE <<>>)
  \o (IF y < size - 1 THEN <<getTile(Num(x), Num(y + 1))>> ELSE <<>>)

\* shift taking the last element of the array
shift_pop(q) == [tile |-> q[Len(q)], rest |-> SubSeq(q, 1, Len(q) - 1)]

\* tilesToSearch.shift(): the first element, and the array without it
shift(q) == [tile |-> Head(q), rest |-> Tail(q)]

\* hasVisited that finds no tile in the set
hasVisited_never(visited, tile) == FALSE

\* visited.has(tile.id)
hasVisited(visited, tile) == id(tile) \in visited

\* tooFar without the limit
tooFar_never(distance, maxDistance) == FALSE

\* the test of findTile that drops a tile without pushing its neighbours
tooFar(distance, maxDistance) == distance > maxDistance

\* filter(tile) for a filter given by the ids it accepts
accepts(filter, tile) == id(tile) \in filter

\* hasMoneyForBuild with > for >=
hasMoneyForBuild_strict(m, buildingType) ==
  IF buildingType = residential /\ m > 500
  THEN [ok |-> TRUE, money |-> m - 500]
  ELSE IF buildingType = road /\ m > 100
  THEN [ok |-> TRUE, money |-> m - 100]
  ELSE [ok |-> FALSE, money |-> m]

\* hasMoneyForBuild debiting without the comparison
hasMoneyForBuild_unchecked(m, buildingType) ==
  IF buildingType = residential
  THEN [ok |-> TRUE, money |-> m - 500]
  ELSE IF buildingType = road
  THEN [ok |-> TRUE, money |-> m - 100]
  ELSE [ok |-> FALSE, money |-> m]

hasMoneyForBuild(m, buildingType) ==
  IF buildingType = residential /\ m >= 500
  THEN [ok |-> TRUE, money |-> m - 500]
  ELSE IF buildingType = road /\ m >= 100
  THEN [ok |-> TRUE, money |-> m - 100]
  ELSE [ok |-> FALSE, money |-> m]

\* new City(size, startMoney)
constructed(startMoney) ==
  /\ size = CitySize
  /\ money = startMoney
  /\ tiles = [x \in 0 .. CitySize - 1 |-> [y \in 0 .. CitySize - 1 |-> NoBuilding]]
  /\ level = 1
  /\ missionCounter = 0
  /\ levels = [l \in 1 .. 2 |-> [k \in 1 .. 3 |-> FALSE]]
  /\ simTime = 0
  /\ vehicleGraph = [x \in 0 .. CitySize - 1 |-> [y \in 0 .. CitySize - 1 |-> NeverUpdated]]
  /\ ui = Quiet("constructor")
  /\ search = NoSearch

Init == constructed(StartMoney)

\* canPlace without the test for a building on the tile
canPlace_anyTile(tile) == tile # Null

\* the test placeBuilding makes before it does anything
canPlace(tile) == tile # Null /\ ~hasBuilding(tile)

\* refund paying back the whole price
refund_full(type) ==
  IF type = road THEN 100
  ELSE IF type = residential THEN 500
  ELSE 0

\* what bulldoze adds to money for a building of a type
refund(type) ==
  IF type = road THEN 50
  ELSE IF type = residential THEN 250
  ELSE 0

\* leavesGraph for a bulldoze that never tells the vehicle graph
leavesGraph_never(building) == FALSE

\* the buildings whose removal bulldoze passes on to the vehicle graph
leavesGraph(building) == building.type = road

\* destroyable without the test of the type
destroyable_any(building) == TRUE

\* the buildings destroy removes
destroyable(building) == building.type = residential


(* ------------------------------ operations ------------------------------ *)

placeBuilding(x, y, buildingType) ==
  LET tile == getTile(x, y)
      h == hasMoneyForBuild(money, buildingType)
      building == createBuilding(x, y, buildingType)
  IN
  IF canPlace(tile)
  THEN IF h.ok
       THEN /\ money' = h.money
            /\ tiles' = setBuilding(tiles, tile.x, tile.y, building)
            /\ vehicleGraph' =
                 IF building.type = road
                 THEN updateTile(vehicleGraph, tile.x, tile.y, building)
                 ELSE vehicleGraph
            /\ ui' = [Quiet("placeBuilding") EXCEPT
                        !.sound = "building",
                        !.notify =
                          IF building.type = road
                          THEN <<Note("moneyTake", "Estrada Construida: -100$")>>
                          ELSE <<Note("moneyTake", "Edificio Construido: -500$")>>]
            /\ UNCHANGED <<search, size, level, missionCounter, levels, simTime>>
       ELSE /\ money' = h.money
            /\ ui' = [Quiet("placeBuilding") EXCEPT
                        !.notify = <<Note("error", "Dinheiro Insuficiente.")>>]
            /\ UNCHANGED <<search, size, tiles, level, missionCounter, levels, simTime,
                           vehicleGraph>>
  ELSE /\ ui' = Quiet("placeBuilding")
       /\ UNCHANGED <<search, size, money, tiles, level, missionCounter, levels,
                      simTime, vehicleGraph>>

bulldoze(x, y) ==
  LET tile == getTile(x, y) IN
  IF tile = Null
  THEN \* tile.building on null throws a TypeError
       /\ ui' = [Quiet("bulldoze") EXCEPT !.raised = TRUE]
       /\ UNCHANGED <<search, size, money, tiles, level, missionCounter, levels,
                      simTime, vehicleGraph>>
  ELSE IF hasBuilding(tile)
  THEN /\ money' = money + refund(tile.building.type)
       /\ vehicleGraph' =
            IF leavesGraph(tile.building)
            THEN updateTile(vehicleGraph, tile.x, tile.y, NoBuilding)
            ELSE vehicleGraph
       /\ tiles' = setBuilding(tiles, tile.x, tile.y, NoBuilding)
       /\ ui' = [Quiet("bulldoze") EXCEPT
                   !.sound = "bulldoze",
                   !.notify =
                     IF tile.building.type = road
                     THEN <<Note("moneyGive", "Estrada Destruida: +50$")>>
                     ELSE IF tile.building.type = residential
                     THEN <<Note("moneyGive", "Edificio Destruido: +250$")>>
                     ELSE <<>>]
       /\ UNCHANGED <<search, size, level, missionCounter, levels, simTime>>
  ELSE /\ ui' = Quiet("bulldoze")
       /\ UNCHANGED <<search, size, money, tiles, level, missionCounter, levels,
                      simTime, vehicleGraph>>

destroy(x, y) ==
  LET tile == getTile(x, y) IN
  IF tile = Null
  THEN \* tile.building on null throws a TypeError
       /\ ui' = [Quiet("destroy") EXCEPT !.raised = TRUE]
       /\ UNCHANGED <<search, size, money, tiles, level, missionCounter, levels,
                      simTime, vehicleGraph>>
  ELSE IF hasBuilding(tile) /\ destroyable(tile.building)
  THEN /\ vehicleGraph' = updateTile(vehicleGraph, tile.x, tile.y, NoBuilding)
       /\ tiles' = setBuilding(tiles, tile.x, tile.y, NoBuilding)
       /\ ui' = [Quiet("destroy") EXCEPT
                   !.sound = "explosion",
                   !.notify = <<Note("error", "Edificio Explodido!"),
                                Note("error", "Residentes Nao Sobreviveram!")>>]
       /\ UNCHANGED <<search, size, money, level, missionCounter, levels, simTime>>
  ELSE /\ ui' = Quiet("destroy")
       /\ UNCHANGED <<search, size, money, tiles, level, missionCounter, levels,
                      simTime, vehicleGraph>>

\* services is empty after construction and no method of City adds to it, so
\* the forEach over it does nothing.  The locals are bound by \E over a
\* one-element set, which computes each once.
simulate(steps) ==
  \E roadCount \in {StepLoop(tiles, road, 0, steps, 0)} :
  \E buildCount \in {StepLoop(tiles, residential, 0, steps, 0)} :
  \E f \in Residents(tiles) :
  \E after \in {TileSimulate(tiles, f)} :
  \E flags \in {evaluateMissions(level, levels[level], population(after),
                                  buildCount, roadCount)} :
  \E counter \in {DoneCount(flags)} :
    /\ tiles' = after
    /\ levels' = [levels EXCEPT ![level] = flags]
    /\ missionCounter' = counter
    /\ level' = IF counter = 3 /\ level = 1 THEN level + 1 ELSE level
    /\ money' = money + bonus(level, counter)
    /\ ui' = [Quiet("simulate") EXCEPT
                !.notify =
                  IF counter = 3 /\ level = 1
                  THEN <<Note("moneyGive", "Parabens! Subiste de Nivel: +2500$")>>
                  ELSE IF counter = 3 /\ level = 2
                  THEN <<Note("success", "Parabens! Concluiste as Missoes!")>>
                  ELSE <<>>,
                !.toggled = (counter = 3 /\ level = 2)]
    /\ simTime' = tick(simTime, steps)
    /\ UNCHANGED <<size, vehicleGraph, search>>

\* hasMoneyForBuild called on its own: the debit without a placement
quoteAndDebit(buildingType) ==
  \E h \in {hasMoneyForBuild(money, buildingType)} :
    /\ money' = h.money
    /\ ui' = [Quiet("hasMoneyForBuild") EXCEPT
                !.returned = IF h.ok THEN "true" ELSE "false"]
    /\ UNCHANGED <<search, size, tiles, level, missionCounter, levels, simTime,
                   vehicleGraph>>

\* findTile up to its while loop
findTile(start, filter, maxDistance) ==
  /\ search.pc # "loop"
  /\ \E startTile \in {getTile(start.x, start.y)} :
       search' = [pc |-> "loop", startTile |-> startTile, filter |-> filter,
                  maxDistance |-> maxDistance,
                  tilesToSearch |-> <<startTile>>, visited |-> {},
                  result |-> Null, expanded |-> <<>>]
  /\ UNCHANGED <<size, money, tiles, level, missionCounter, levels, simTime,
                 vehicleGraph, ui>>

\* one test of the while condition of findTile with the iteration or the
\* return that follows it
findTileLoop ==
  /\ search.pc = "loop"
  /\ IF Len(search.tilesToSearch) = 0
     THEN search' = [search EXCEPT !.pc = "returned", !.result = Null]
     ELSE \E s \in {shift(search.tilesToSearch)} :
            IF hasVisited(search.visited, s.tile)
            THEN search' = [search EXCEPT !.tilesToSearch = s.rest]
            ELSE IF tooFar(distanceTo(search.startTile, s.tile),
                           search.maxDistance)
            THEN search' = [search EXCEPT
                              !.tilesToSearch = s.rest,
                              !.visited = @ \cup {id(s.tile)}]
            ELSE search' = [search EXCEPT
                              !.tilesToSearch =
                                s.rest \o getTileNeighbors(s.tile.x, s.tile.y),
                              !.visited = @ \cup {id(s.tile)},
                              !.expanded = Append(@, id(s.tile)),
                              !.pc = IF accepts(search.filter, s.tile)
                                     THEN "returned" ELSE "loop",
                              !.result = IF accepts(search.filter, s.tile)
                                         THEN s.tile ELSE Null]
  /\ UNCHANGED <<size, money, tiles, level, missionCounter, levels, simTime,
                 vehicleGraph, ui>>

PlaceBuilding ==
  \E c \in Targets, t \in BuildingTypes : placeBuilding(c[1], c[2], t)
Bulldoze == \E c \in Targets : bulldoze(c[1], c[2])
Destroy == \E c \in Targets : destroy(c[1], c[2])
Simulate == \E steps \in StepArgs : simTime < MaxSimTime /\ simulate(steps)
HasMoneyForBuild == \E t \in BuildingTypes : quoteAndDebit(t)

Next == PlaceBuilding \/ Bulldoze \/ Destroy \/ Simulate \/ HasMoneyForBuild

Spec == Init /\ [][Next]_vars

\* a city with the money for five residential buildings and a road, built up
\* tile after tile in scan order and simulated, without demolition; the money
\* left after the simulate calls can be debited without a placement
InitCampaign == constructed(CampaignMoney)

\* the empty tiles among the first CampaignTiles that follow no empty tile
FirstEmpty ==
  {c \in InRange(CampaignTiles) :
     /\ tiles[c[1].n][c[2].n] = NoBuilding
     /\ \A d \in InRange(CampaignTiles) :
          d[1].n * CitySize + d[2].n < c[1].n * CitySize + c[2].n =>
            tiles[d[1].n][d[2].n] # NoBuilding}

PlaceCampaign ==
  \E c \in FirstEmpty, t \in {residential, road} :
    placeBuilding(c[1], c[2], t)
SimulateCampaign ==
  \E steps \in StepArgs : simTime < CampaignSimTime /\ simulate(steps)

\* hasMoneyForBuild called on its own for a residential building, once the
\* simulate calls are made
HasMoneyCampaign == simTime = CampaignSimTime /\ quoteAndDebit(residential)

NextCampaign == PlaceCampaign \/ SimulateCampaign \/ HasMoneyCampaign

SpecCampaign == InitCampaign /\ [][NextCampaign]_vars

\* a city with the money for two residential buildings and a road, built up
\* tile after tile in scan order and simulated with one step or with
\* FinaleSteps steps, so that both levels can be completed; once the simulate
\* calls are made the last building can be demolished and rebuilt
InitFinale == constructed(FinaleMoney)

\* the empty tile among the first FinaleTiles that follows no empty tile, and
\* the occupied one that no occupied tile follows
FinaleEmpty ==
  {c \in InRange(FinaleTiles) :
     /\ tiles[c[1].n][c[2].n] = NoBuilding
     /\ \A d \in InRange(FinaleTiles) :
          d[1].n * CitySize + d[2].n < c[1].n * CitySize + c[2].n =>
            tiles[d[1].n][d[2].n] # NoBuilding}
FinaleLast ==
  {c \in InRange(FinaleTiles) :
     /\ tiles[c[1].n][c[2].n] # NoBuilding
     /\ \A d \in InRange(FinaleTiles) :
          d[1].n * CitySize + d[2].n > c[1].n * CitySize + c[2].n =>
            tiles[d[1].n][d[2].n] = NoBuilding}

PlaceFinale ==
  \E c \in FinaleEmpty, t \in {residential, road} :
    placeBuilding(c[1], c[2], t)
BulldozeFinale ==
  simTime = FinaleSimTime /\ \E c \in FinaleLast : bulldoze(c[1], c[2])
DestroyFinale ==
  simTime = FinaleSimTime /\ \E c \in FinaleLast : destroy(c[1], c[2])
SimulateFinale ==
  /\ simTime < FinaleSimTime
  /\ \E steps \in {1, FinaleSteps} : simulate(steps)

NextFinale ==
  \/ PlaceFinale
  \/ BulldozeFinale
  \/ DestroyFinale
  \/ SimulateFinale
  \/ HasMoneyForBuild

SpecFinale == InitFinale /\ [][NextFinale]_vars

\* one findTile call on the constructed city, for every start, filter and
\* maxDistance
FindTile ==
  /\ search.pc = "idle"
  /\ \E start \in Starts, filter \in Filters, maxDistance \in Distances :
       findTile(start, filter, maxDistance)
FindTileLoop == findTileLoop

NextFind == FindTile \/ FindTileLoop

SpecFind == Init /\ [][NextFind]_vars

(* ------------------------------- claims --------------------------------- *)

\* the building on the tile a call with in-range coordinates c aims at
At(ts, c) == ts[c[1].n][c[2].n]

\* the price the claims quote for a building type
Price(t) == IF t = residential THEN 500 ELSE 100

InsufficientFunds == Note("error", "Dinheiro Insuficiente.")

\* C1: placeBuilding of a residential building (500) or a road (100) on an
\* existing empty tile succeeds exactly when money >= cost, money equal to the
\* cost included; on success money drops by the cost and the tile holds a
\* building of that type, on failure money and the empty tile are unchanged.
C1_PlaceIffAffordable ==
  [][\A c \in InRange(UsedTiles), t \in {residential, road} :
       (/\ ui'.op = "placeBuilding"
        /\ At(tiles, c) = NoBuilding
        /\ placeBuilding(c[1], c[2], t)) =>
         IF money >= Price(t)
         THEN money' = money - Price(t) /\ At(tiles', c).type = t
         ELSE money' = money /\ At(tiles', c) = NoBuilding]_vars

\* a placement that spent the last of the money has just succeeded
C1_Witness ==
  /\ ui.op = "placeBuilding"
  /\ ui.sound = "building"
  /\ money = 0

\* C2: placeBuilding aimed outside the grid or at a tile that holds a building
\* changes nothing: not money, not any tile, not the level, the mission flags
\* or the clock, whatever the money and the type.  Stated contrapositively: a
\* step that changes any of these is not such a call.
C2_PlaceNoOp ==
  [][(/\ ui'.op = "placeBuilding"
      /\ ~UNCHANGED <<money, tiles, level, levels, missionCounter, simTime>>) =>
       \A c \in Targets, t \in BuildingTypes :
         (getTile(c[1], c[2]) = Null \/ hasBuilding(getTile(c[1], c[2]))) =>
           ~placeBuilding(c[1], c[2], t)]_vars

\* a placement call has returned without effect while a residential building
\* was affordable and a tile was occupied
C2_Witness ==
  /\ ui = Quiet("placeBuilding")
  /\ money >= 500
  /\ \E c \in InRange(UsedTiles) : At(tiles, c) # NoBuilding

\* C3: bulldoze on an in-range tile credits exactly 50 for a road and exactly
\* 250 for a residential building and leaves the tile empty; on an empty tile
\* it changes neither money nor any tile.
C3_BulldozeRefund ==
  [][\A c \in InRange(UsedTiles) :
       (ui'.op = "bulldoze" /\ bulldoze(c[1], c[2])) =>
         /\ At(tiles, c).type = road =>
              money' = money + 50 /\ At(tiles', c) = NoBuilding
         /\ At(tiles, c).type = residential =>
              money' = money + 250 /\ At(tiles', c) = NoBuilding
         /\ At(tiles, c) = NoBuilding => money' = money /\ tiles' = tiles]_vars

\* a residential building has just been bulldozed
C3_Witness ==
  /\ ui.op = "bulldoze"
  /\ ui.notify = <<Note("moneyGive", "Edificio Destruido: +250$")>>
  /\ money = 350

\* C4: destroy on an in-range tile empties a tile that holds a residential
\* building and refunds nothing; on a road, any other building or an empty
\* tile it changes neither the tile nor money.
C4_DestroyResidentialOnly ==
  [][\A c \in InRange(UsedTiles) :
       (ui'.op = "destroy" /\ destroy(c[1], c[2])) =>
         /\ money' = money
         /\ IF At(tiles, c).type = residential
            THEN tiles' = [tiles EXCEPT ![c[1].n][c[2].n] = NoBuilding]
            ELSE tiles' = tiles]_vars

\* destroy has returned without effect when every tile it can aim at in the
\* grid holds a road
C4_Witness ==
  /\ ui = Quiet("destroy")
  /\ \A c \in InRange(UsedTiles) : At(tiles, c).type = road

\* C5: a simulate call made at level 1 in which population >= 35, the number
\* of residential buildings >= 5 and the number of roads >= 1 returns with
\* level 2 and money exactly 2500 higher.
C5_LevelUp ==
  [][(/\ ui'.op = "simulate"
      /\ level = 1
      /\ ScanGrid(tiles, residential, 0) >= 5
      /\ ScanGrid(tiles, road, 0) >= 1
      /\ population(tiles') >= 35) =>
       level' = 2 /\ money' = money + 2500]_vars

\* the level-up has just happened in a city with five residential buildings,
\* a road and 35 residents
C5_Witness ==
  /\ ui.op = "simulate"
  /\ level = 2
  /\ ScanGrid(tiles, residential, 0) >= 5
  /\ ScanGrid(tiles, road, 0) >= 1
  /\ population(tiles) >= 35

\* C6: the residential and road counts of the mission evaluation are those
\* of one scan of the grid, not a sum over the steps: a simulate call marks a
\* building-count or road-count mission done only if the grid holds at least
\* the target number of such buildings.
C6_CountsOfOneScan ==
  [][ui'.op = "simulate" =>
       \A k \in 1 .. 3 :
         (~levels[level][k] /\ levels'[level][k]) =>
           /\ LevelMissions[level][k].buildings # 0 =>
                ScanGrid(tiles, residential, 0) >= LevelMissions[level][k].buildings
           /\ LevelMissions[level][k].road # 0 =>
                ScanGrid(tiles, road, 0) >= LevelMissions[level][k].road]_vars

\* C7: simulate(steps) advances simTime by exactly steps.
C7_ClockCountsSteps ==
  [][\A steps \in StepArgs :
       (ui'.op = "simulate" /\ simulate(steps)) => simTime' = simTime + steps]_vars

\* C8: bulldoze and destroy aimed outside the grid, or at an undefined
\* coordinate, return without raising an error and change neither money, nor
\* any tile, nor the level, nor the mission flags.
C8_OutOfRangeSilent ==
  [][\A c \in OutOfRange :
       (/\ ui'.op \in {"bulldoze", "destroy"}
        /\ (bulldoze(c[1], c[2]) \/ destroy(c[1], c[2]))) =>
         /\ ~ui'.raised
         /\ UNCHANGED <<money, tiles, level, levels>>]_vars

\* C9: placeBuilding of a type that is neither residential nor road on an
\* existing empty tile changes neither money nor the tile and notifies
\* nothing; the insufficient-funds notification comes only from a residential
\* or road placement on an existing empty tile that fails for money < cost.
C9_UnknownTypeSilent ==
  [][\A c \in InRange(UsedTiles), t \in BuildingTypes :
       (/\ ui'.op = "placeBuilding"
        /\ At(tiles, c) = NoBuilding
        /\ placeBuilding(c[1], c[2], t)) =>
         /\ t \notin {residential, road} =>
              UNCHANGED <<money, tiles>> /\ ui'.notify = <<>>
         /\ ui'.notify = <<InsufficientFunds>> =>
              t \in {residential, road} /\ money < Price(t)]_vars

\* C10: a mission's done flag, once true, is true in every later state,
\* whatever simulate, placeBuilding, bulldoze and destroy calls follow.
C10_DoneMonotonic ==
  [][\A l \in 1 .. 2, k \in 1 .. 3 : levels[l][k] => levels'[l][k]]_vars

\* the road mission of level 1 is still done after a later simulate call found
\* no road on the grid
C10_Witness ==
  /\ ui.op = "simulate"
  /\ simTime >= 2
  /\ levels[1][3]
  /\ ScanGrid(tiles, road, 0) = 0

\* C11: window.ui.toggleFinished is triggered at most once: a simulate call
\* triggers it only if the three missions of level 2 were not all done before
\* the call, so no later simulate call triggers it again.
C11_FinishedOnce ==
  [][(ui'.op = "simulate" /\ ui'.toggled) =>
       ~(\A k \in 1 .. 3 : levels[2][k])]_vars

\* the Manhattan distance of two tile ids
Manhattan(c, d) ==
  (IF c[1] >= d[1] THEN c[1] - d[1] ELSE d[1] - c[1])
  + (IF c[2] >= d[2] THEN c[2] - d[2] ELSE d[2] - c[2])

\* a findTile call has returned; its start and its result as tile ids
Returned == search.pc = "returned"
StartId == <<search.startTile.x, search.startTile.y>>
ResultId == <<search.result.x, search.result.y>>

\* C12: a tile returned by findTile satisfies the predicate and lies within
\* Manhattan distance maxDistance of start, so with maxDistance = 0 it is the
\* start tile; if no tile of the grid satisfies the predicate, findTile
\* returns null.
C12_ResultWithinDistance ==
  Returned =>
    /\ search.result # Null =>
         /\ ResultId \in search.filter
         /\ Manhattan(StartId, ResultId) <= search.maxDistance
         /\ search.maxDistance = 0 => search.result = search.startTile
    /\ search.filter \cap Grid = {} => search.result = Null

\* findTile has returned null although the predicate holds of a tile one step
\* beyond maxDistance
C12_Witness ==
  /\ Returned
  /\ search.result = Null
  /\ \E c \in search.filter :
       Manhattan(StartId, c) = search.maxDistance + 1

\* the reference traversal of C13: the in-bounds neighbours of a tile in the
\* order west, east, north, south
ReferenceNeighbours(c) ==
  SelectSeq(<< <<c[1] - 1, c[2]>>, <<c[1] + 1, c[2]>>,
               <<c[1], c[2] - 1>>, <<c[1], c[2] + 1>> >>,
            LAMBDA d : d \in Grid)

\* the elements of a sequence that are not in a set, each once, in order
RECURSIVE Fresh(_, _)
Fresh(q, seen) ==
  IF q = <<>> THEN <<>>
  ELSE IF Head(q) \in seen THEN Fresh(Tail(q), seen)
  ELSE <<Head(q)>> \o Fresh(Tail(q), seen \cup {Head(q)})

\* the visiting order of the reference traversal: a first-in first-out queue
\* of discovered tiles, each tile discovered once; a tile farther than
\* maxDistance is taken from the queue and dropped, any other tile is visited
\* and its undiscovered neighbours join the queue
RECURSIVE ReferenceOrder(_, _, _, _)
ReferenceOrder(start, maxDistance, queue, discovered) ==
  IF queue = <<>> THEN <<>>
  ELSE IF Manhattan(start, Head(queue)) > maxDistance
  THEN ReferenceOrder(start, maxDistance, Tail(queue), discovered)
  ELSE LET fresh == Fresh(ReferenceNeighbours(Head(queue)), discovered) IN
       <<Head(queue)>> \o
       ReferenceOrder(start, maxDistance, Tail(queue) \o fresh,
                      discovered \cup {fresh[i] : i \in 1 .. Len(fresh)})

\* the first tile of a sequence that a filter accepts, as a one-element
\* sequence, or the empty sequence
RECURSIVE FirstAccepted(_, _)
FirstAccepted(order, filter) ==
  IF order = <<>> THEN <<>>
  ELSE IF Head(order) \in filter THEN <<Head(order)>>
  ELSE FirstAccepted(Tail(order), filter)

ReferenceResult ==
  FirstAccepted(ReferenceOrder(StartId, search.maxDistance, <<StartId>>,
                               {StartId}),
                search.filter)

\* C13: the result of findTile is the first tile satisfying the predicate in
\* the visiting order of the reference breadth-first traversal from start
\* (first-in first-out, no tile visited twice, tiles farther than maxDistance
\* dropped, neighbours in the order west, east, north, south), and null when
\* that traversal visits no such tile.
C13_FirstInReferenceOrder ==
  Returned =>
    IF ReferenceResult = <<>>
    THEN search.result = Null
    ELSE search.result # Null /\ ResultId = ReferenceResult[1]

\* findTile has returned one of two accepted tiles that are equally far from
\* start
C13_Witness ==
  /\ Returned
  /\ search.result # Null
  /\ \E c \in search.filter :
       /\ c # ResultId
       /\ Manhattan(StartId, c) = Manhattan(StartId, ResultId)

\* C14: findTile terminates.  Every iteration of its loop either adds a tile
\* to the visited set or leaves the set alone and shortens the queue, and no
\* tile has its neighbours pushed twice; the grid being finite, the queue
\* empties or a match is returned.
C14_LoopProgress ==
  [][search.pc = "loop" /\ search' # search =>
       /\ \/ /\ search.visited \subseteq search'.visited
             /\ search'.visited # search.visited
             /\ search'.visited \subseteq Grid
          \/ /\ search'.visited = search.visited
             /\ Len(search'.tilesToSearch) < Len(search.tilesToSearch)
          \/ /\ search'.pc = "returned"
             /\ search.tilesToSearch = <<>>
       /\ \A i, j \in 1 .. Len(search'.expanded) :
            i # j => search'.expanded[i] # search'.expanded[j]]_vars

\* findTile has returned null after it pushed the neighbours of every tile
\* within maxDistance of start, six tiles or more
C14_Witness ==
  /\ Returned
  /\ search.result = Null
  /\ Len(search.expanded) >= 6
  /\ Len(search.expanded) =
       Cardinality({c \in Grid : Manhattan(StartId, c) <= search.maxDistance})

\* C19: if a tile within Manhattan distance maxDistance of start satisfies
\* the predicate, findTile returns a tile, and no tile satisfying the
\* predicate is nearer to start than the returned one.
C19_NearestMatch ==
  (/\ Returned
   /\ \E c \in search.filter : Manhattan(StartId, c) <= search.maxDistance) =>
    /\ search.result # Null
    /\ \A c \in search.filter :
         Manhattan(StartId, ResultId) <= Manhattan(StartId, c)

\* findTile has returned the nearer of two accepted tiles within maxDistance
C19_Witness ==
  /\ Returned
  /\ search.result # Null
  /\ \E c \in search.filter :
       /\ Manhattan(StartId, c) <= search.maxDistance
       /\ Manhattan(StartId, c) > Manhattan(StartId, ResultId)

\* C15: money >= 0 in every state reachable from a city constructed with
\* money >= 0 by placeBuilding, bulldoze, destroy and simulate calls.
C15_NeverOverdrawn == money >= 0

\* a placement has just been refused for lack of money with less than the
\* price of a road left
C15_Witness ==
  /\ ui.op = "placeBuilding"
  /\ ui.notify = <<InsufficientFunds>>
  /\ money < 100

\* C16: level is 1 or 2 and never decreases; it changes only from 1 to 2 and
\* only in a simulate call that leaves all three level-1 missions done; once
\* it is 2 no call changes it.
C16_LevelOneWay ==
  [][/\ level \in {1, 2}
     /\ level' \in {1, 2}
     /\ level' >= level
     /\ level = 2 => level' = 2
     /\ level' # level =>
          /\ ui'.op = "simulate"
          /\ \A k \in 1 .. 3 : levels'[1][k]]_vars

\* a building has just been bulldozed in a city at level 2
C16_Witness ==
  /\ level = 2
  /\ ui.op = "bulldoze"
  /\ ui.sound = "bulldoze"

\* C17: a simulate call that takes level from 1 to 2 adds exactly 2500 to
\* money; every other simulate call, at level 1 or at level 2, leaves money
\* unchanged.
C17_BonusAtLevelUpOnly ==
  [][ui'.op = "simulate" =>
       IF level = 1 /\ level' = 2
       THEN money' = money + 2500
       ELSE money' = money]_vars

\* the missions of level 2 were all done by the second simulate call and a
\* third one has returned; the city holds the one bonus
C17_Witness ==
  /\ ui.op = "simulate"
  /\ ui.toggled
  /\ simTime = 3
  /\ money = FinaleMoney - 1100 + 2500

\* C18: after a simulate call has returned, missionCounter is in 0 .. 3 and is
\* the number of done missions of the level the city is at.
C18_CounterOfActiveLevel ==
  ui.op = "simulate" =>
    /\ missionCounter \in 0 .. 3
    /\ missionCounter = DoneCount(levels[level])

\* C20: for every tile, the last value passed to vehicleGraph.updateTile for
\* it is a road building exactly when the tile holds a road.
C20_RoadNetworkInSync ==
  \A x \in 0 .. size - 1, y \in 0 .. size - 1 :
    (vehicleGraph[x][y].type = road) <=> (tiles[x][y].type = road)

\* a residential building stands where a road was bulldozed
C20_Witness ==
  /\ ui.op = "placeBuilding"
  /\ \E x \in 0 .. size - 1, y \in 0 .. size - 1 :
       /\ vehicleGraph[x][y] = NoBuilding
       /\ tiles[x][y].type = residential

====
